---------------------------- MODULE Spec2Model ----------------------------
(***************************************************************************)
(* go-makepkg: PKGBUILD generator for Go programs.                         *)
(*                                                                         *)
(* The model follows main() of the generator: repository URL               *)
(* normalisation, creation of the output directory, collection of the      *)
(* input files, staging by hard link, the service unit, the build script,  *)
(* .gitignore, makepkg and the clean-up.  Strings are TLA+ strings handled *)
(* character by character, the file system is a map from path names to     *)
(* directories and inodes.                                                 *)
(***************************************************************************)
EXTENDS Integers, Sequences, FiniteSets, TLC

VARIABLES
    pc,              \* position of main(): the next step to run
    goStrict,        \* whether net/url of the toolchain validates ports
    rawRepoURL,      \* args[<repo>]
    origRepoURL,     \* the <repo> of the first invocation (history)
    pkgNameOpt,      \* args[-n], NoName when absent
    safeRepoURL,     \* main: safeRepoURL
    isWildcardBuild, \* main: isWildcardBuild
    packageName,     \* main: packageName
    fileList,        \* args[<file>]
    dirName,         \* args[-d]
    opt,             \* the boolean flags -B -c -s -g
    fs,              \* file system: existing path -> DirNode or inode id
    content,         \* inode id -> content (a sequence of lines)
    files,           \* main: files ([]pkgFile)
    backup,          \* main: backup
    idx,             \* copyLocalFiles: index of the next entry of the loop
    err,             \* the error that ended the run, "nil" when none
    buildArgs,       \* arguments of the last makepkg invocation of this run
    built,           \* makepkg was invoked in this run
    cleaned,         \* cleanUp was performed in this run
    rerun            \* this invocation follows an earlier one (history)

vars == <<pc, goStrict, rawRepoURL, origRepoURL, pkgNameOpt, safeRepoURL,
          isWildcardBuild, packageName, fileList, dirName, opt, fs, content,
          files, backup, idx, err, buildArgs, built, cleaned, rerun>>

urlVars == <<safeRepoURL, isWildcardBuild, packageName>>
argVars == <<goStrict, rawRepoURL, origRepoURL, pkgNameOpt, fileList, dirName, opt>>
fsVars  == <<fs, content>>
runVars == <<files, backup, idx, buildArgs, built, cleaned>>

NoName == "<nil>"

-----------------------------------------------------------------------------
(* package strings                                                         *)

HasPrefix(s, prefix) ==
    Len(s) >= Len(prefix) /\ SubSeq(s, 1, Len(prefix)) = prefix

HasSuffix(s, suffix) ==
    Len(s) >= Len(suffix) /\ SubSeq(s, Len(s) - Len(suffix) + 1, Len(s)) = suffix

TrimSuffix(s, suffix) ==
    IF HasSuffix(s, suffix) THEN SubSeq(s, 1, Len(s) - Len(suffix)) ELSE s

MatchAt(s, sub, i) == SubSeq(s, i, i + Len(sub) - 1) = sub

\* strings.Index, 1-based; 0 when sub does not occur in s
Index(s, sub) ==
    LET hits == {i \in 1..(Len(s) - Len(sub) + 1) : MatchAt(s, sub, i)}
    IN  IF hits = {} THEN 0 ELSE CHOOSE i \in hits : \A j \in hits : i <= j

\* strings.LastIndex, 1-based; 0 when sub does not occur in s
LastIndex(s, sub) ==
    LET hits == {i \in 1..(Len(s) - Len(sub) + 1) : MatchAt(s, sub, i)}
    IN  IF hits = {} THEN 0 ELSE CHOOSE i \in hits : \A j \in hits : i >= j

Contains(s, sub) == Index(s, sub) # 0

\* strings.Replace(s, old, new, -1) for a non-empty old: every
\* non-overlapping occurrence, left to right
RECURSIVE Replace(_, _, _)
Replace(s, old, new) ==
    LET i == Index(s, old)
    IN  IF i = 0 THEN s
        ELSE SubSeq(s, 1, i - 1) \o new
             \o Replace(SubSeq(s, i + Len(old), Len(s)), old, new)

UpperLetters == "ABCDEFGHIJKLMNOPQRSTUVWXYZ"
LowerLetters == "abcdefghijklmnopqrstuvwxyz"
Digits == "0123456789"

IsLetter(c) == Contains(UpperLetters, c) \/ Contains(LowerLetters, c)
IsDigit(c) == Contains(Digits, c)

LowerChar(c) ==
    LET i == Index(UpperLetters, c)
    IN  IF i = 0 THEN c ELSE SubSeq(LowerLetters, i, i)

RECURSIVE ToLower(_)
ToLower(s) ==
    IF s = "" THEN "" ELSE LowerChar(SubSeq(s, 1, 1)) \o ToLower(Tail(s))

-----------------------------------------------------------------------------
(* net/url: url.Parse as main() uses it (Scheme and Host of the result).   *)
(* The input sets hold no '?', '#', '%' or '[' characters.                 *)

RECURSIVE getschemeFrom(_, _)
getschemeFrom(rawurl, i) ==
    IF i > Len(rawurl) THEN [ok |-> TRUE, scheme |-> "", rest |-> rawurl]
    ELSE LET c == SubSeq(rawurl, i, i) IN
         IF IsLetter(c) THEN getschemeFrom(rawurl, i + 1)
         ELSE IF IsDigit(c) \/ c \in {"+", "-", "."}
         THEN IF i = 1 THEN [ok |-> TRUE, scheme |-> "", rest |-> rawurl]
              ELSE getschemeFrom(rawurl, i + 1)
         ELSE IF c = ":"
         THEN IF i = 1 THEN [ok |-> FALSE, scheme |-> "", rest |-> ""]
              ELSE [ok |-> TRUE, scheme |-> SubSeq(rawurl, 1, i - 1),
                    rest |-> SubSeq(rawurl, i + 1, Len(rawurl))]
         ELSE [ok |-> TRUE, scheme |-> "", rest |-> rawurl]

getscheme(rawurl) == getschemeFrom(rawurl, 1)

RECURSIVE AllDigits(_)
AllDigits(s) ==
    s = "" \/ (IsDigit(SubSeq(s, 1, 1)) /\ AllDigits(Tail(s)))

\* the host of an authority: what follows the last '@'; a release that
\* validates the port wants digits only after the last ':' of the host
parseAuthority(authority, strict) ==
    LET at   == LastIndex(authority, "@")
        host == SubSeq(authority, at + 1, Len(authority))
        col  == LastIndex(host, ":")
    IN  [ok   |-> ~strict \/ col = 0 \/ AllDigits(SubSeq(host, col + 1, Len(host))),
         host |-> host]

urlParse(rawurl, strict) ==
    LET gs     == getscheme(rawurl)
        scheme == ToLower(gs.scheme)
        rest   == gs.rest
        colon  == Index(rest, ":")
        slash  == Index(rest, "/")
    IN  IF ~gs.ok THEN [ok |-> FALSE, Scheme |-> "", Host |-> ""]
        ELSE IF ~HasPrefix(rest, "/") /\ scheme # ""
        THEN [ok |-> TRUE, Scheme |-> scheme, Host |-> ""]      \* opaque
        ELSE IF ~HasPrefix(rest, "/") /\ strict
                /\ colon # 0 /\ (slash = 0 \/ colon < slash)
        THEN [ok |-> FALSE, Scheme |-> "", Host |-> ""]
        ELSE IF (scheme # "" \/ ~HasPrefix(rest, "///")) /\ HasPrefix(rest, "//")
        THEN LET after     == SubSeq(rest, 3, Len(rest))
                 cut       == Index(after, "/")
                 authority == IF cut = 0 THEN after ELSE SubSeq(after, 1, cut - 1)
                 pa        == parseAuthority(authority, strict)
             IN  [ok |-> pa.ok, Scheme |-> scheme, Host |-> pa.host]
        ELSE [ok |-> TRUE, Scheme |-> scheme, Host |-> ""]

-----------------------------------------------------------------------------
(* package path                                                            *)

RECURSIVE TrimRightSlashes(_)
TrimRightSlashes(p) ==
    IF Len(p) > 0 /\ HasSuffix(p, "/")
    THEN TrimRightSlashes(SubSeq(p, 1, Len(p) - 1)) ELSE p

\* path.Base
Base(p) ==
    IF p = "" THEN "."
    ELSE LET q == TrimRightSlashes(p)
             i == LastIndex(q, "/")
             b == SubSeq(q, i + 1, Len(q))
         IN  IF b = "" THEN "/" ELSE b

\* path.Ext: from the final dot of the final element
Ext(p) ==
    LET i == LastIndex(p, ".")
    IN  IF i = 0 \/ i < LastIndex(p, "/") THEN "" ELSE SubSeq(p, i, Len(p))

-----------------------------------------------------------------------------
(* repository URL                                                          *)

WildcardMarker == "/..."

RECURSIVE TrimAllSuffixes(_, _)
TrimAllSuffixes(s, suffix) ==
    IF HasSuffix(s, suffix) THEN TrimAllSuffixes(TrimSuffix(s, suffix), suffix) ELSE s

\* mutant: every trailing marker is stripped
trimWildcardRepeated(repo) ==
    LET safeURL == TrimAllSuffixes(repo, WildcardMarker)
    IN  <<safeURL, safeURL # repo>>

trimWildcardFromRepoURL(repo) ==
    LET safeURL == TrimSuffix(repo, WildcardMarker)
    IN  <<safeURL, safeURL # repo>>

getPackageNameFromRepoURL(repo) ==
    LET base == Base(repo)
        ext  == Ext(base)
    IN  TrimSuffix(base, ext)

\* main(): the scheme rewrite of the URL string
rewriteScheme(url, scheme) ==
    IF scheme = "ssh" \/ scheme = "ssh+git"
    THEN Replace(url, scheme, "git+ssh") ELSE url

\* main(): the host rewrite of the URL string ("handle git@github.com:")
rewriteHost(url, host) ==
    IF Contains(host, ":")
    THEN Replace(url, host, Replace(host, ":", "/")) ELSE url

-----------------------------------------------------------------------------
(* The file system.  fs maps each existing clean path to DirNode or to the *)
(* id of its inode; hard links are two paths with one inode id.  Names are *)
(* relative to the working directory "." and hold no ".." element.         *)

DirNode == "<dir>"

RECURSIVE Components(_)
Components(p) ==
    IF p = "" THEN <<>>
    ELSE LET i == Index(p, "/")
         IN  IF i = 0 THEN <<p>>
             ELSE <<SubSeq(p, 1, i - 1)>> \o Components(SubSeq(p, i + 1, Len(p)))

KeepElement(c) == c # "" /\ c # "."

RECURSIVE JoinElements(_)
JoinElements(cs) ==
    IF Len(cs) = 1 THEN cs[1] ELSE cs[1] \o "/" \o JoinElements(Tail(cs))

\* filepath.Clean
Clean(p) ==
    LET cs == SelectSeq(Components(p), KeepElement)
    IN  IF cs = <<>> THEN "." ELSE JoinElements(cs)

\* filepath.Join of a directory and a name
Join(dir, name) == Clean(dir \o "/" \o name)

\* the error of walking to clean path q: a missing or non-directory ancestor
PathError(f, q) ==
    LET bad == {i \in 1..Len(q) :
                   /\ SubSeq(q, i, i) = "/"
                   /\ \/ SubSeq(q, 1, i - 1) \notin DOMAIN f
                      \/ f[SubSeq(q, 1, i - 1)] # DirNode}
    IN  IF bad = {} THEN "nil"
        ELSE LET i == CHOOSE k \in bad : \A j \in bad : k <= j
             IN  IF SubSeq(q, 1, i - 1) \in DOMAIN f THEN "ENOTDIR" ELSE "ENOENT"

\* os.Stat
Stat(f, name) ==
    LET q  == Clean(name)
        pe == PathError(f, q)
    IN  IF pe # "nil" THEN [err |-> pe, isDir |-> FALSE]
        ELSE IF q \notin DOMAIN f THEN [err |-> "ENOENT", isDir |-> FALSE]
        ELSE [err |-> "nil", isDir |-> f[q] = DirNode]

\* mutant: the test of prepareFileList taken for "does not exist"
IsExistInverted(e) == e = "ENOENT"

\* os.IsNotExist, os.IsExist
IsNotExist(e) == e = "ENOENT"
IsExist(e) == e \in {"EEXIST", "ENOTEMPTY"}

\* os.Mkdir
Mkdir(f, name) ==
    LET q  == Clean(name)
        pe == PathError(f, q)
    IN  IF pe # "nil" THEN [err |-> pe, fs |-> f]
        ELSE IF q \in DOMAIN f THEN [err |-> "EEXIST", fs |-> f]
        ELSE [err |-> "nil", fs |-> (q :> DirNode) @@ f]

\* inodes of another file system than the output directory's, and inodes
\* without any permission bit
OtherDevice == {"mnt/data"}
Unreadable == {"locked"}

\* os.Link
Link(f, oldname, newname) ==
    LET so == Stat(f, oldname)
        o  == Clean(oldname)
        n  == Clean(newname)
        pe == PathError(f, n)
    IN  IF so.err # "nil" THEN [err |-> so.err, fs |-> f]
        ELSE IF so.isDir THEN [err |-> "EPERM", fs |-> f]
        ELSE IF pe # "nil" THEN [err |-> pe, fs |-> f]
        ELSE IF n \in DOMAIN f THEN [err |-> "EEXIST", fs |-> f]
        ELSE IF f[o] \in OtherDevice THEN [err |-> "EXDEV", fs |-> f]
        ELSE [err |-> "nil", fs |-> (n :> f[o]) @@ f]

\* os.Create and the open of ioutil.WriteFile: O_CREATE|O_TRUNC.  A new
\* file gets an inode named after its path.
Create(f, c, name) ==
    LET q  == Clean(name)
        pe == PathError(f, q)
    IN  IF pe # "nil" THEN [err |-> pe, fs |-> f, content |-> c]
        ELSE IF q \notin DOMAIN f
        THEN [err |-> "nil", fs |-> (q :> q) @@ f, content |-> (q :> <<>>) @@ c]
        ELSE IF f[q] = DirNode THEN [err |-> "EISDIR", fs |-> f, content |-> c]
        ELSE IF f[q] \in Unreadable THEN [err |-> "EACCES", fs |-> f, content |-> c]
        ELSE [err |-> "nil", fs |-> f, content |-> [c EXCEPT ![f[q]] = <<>>]]

\* os.RemoveAll: the path and everything below it; no error when absent
RemoveAll(f, name) ==
    LET q    == Clean(name)
        gone == {p \in DOMAIN f : p = q \/ HasPrefix(p, q \o "/")}
    IN  [p \in DOMAIN f \ gone |-> f[p]]

RECURSIVE Flatten(_)
Flatten(lines) ==
    IF lines = <<>> THEN "" ELSE lines[1] \o "\n" \o Flatten(Tail(lines))

\* the hex digest of a content
MD5(lines) == "md5(" \o Flatten(lines) \o ")"

getFileHash(f, c, name) ==
    LET st == Stat(f, name)
    IN  IF st.err # "nil" THEN [err |-> st.err, hash |-> ""]
        ELSE IF st.isDir THEN [err |-> "EISDIR", hash |-> ""]
        ELSE IF f[Clean(name)] \in Unreadable THEN [err |-> "EACCES", hash |-> ""]
        ELSE [err |-> "nil", hash |-> MD5(c[f[Clean(name)]])]

-----------------------------------------------------------------------------
(* File collection                                                         *)

BuildScriptName == "PKGBUILD"

pkgFile(path, name, hash) == [Path |-> path, Name |-> name, Hash |-> hash]

\* prepareFileList: the loop from entry i on, acc the entries so far
RECURSIVE prepareFrom(_, _, _, _, _, _)
prepareFrom(names, i, outDir, f, c, acc) ==
    IF i > Len(names) THEN [err |-> "nil", files |-> acc]
    ELSE LET name == names[i]
             st   == Stat(f, name)
             h    == getFileHash(f, c, name)
         IN  IF IsExist(st.err) THEN prepareFrom(names, i + 1, outDir, f, c, acc)
             ELSE IF st.err # "nil" THEN [err |-> st.err, files |-> <<>>]
             ELSE IF st.isDir THEN prepareFrom(names, i + 1, outDir, f, c, acc)
             ELSE IF name = BuildScriptName
             THEN prepareFrom(names, i + 1, outDir, f, c, acc)
             ELSE IF HasPrefix(name, outDir)
             THEN prepareFrom(names, i + 1, outDir, f, c, acc)
             ELSE IF h.err # "nil" THEN [err |-> h.err, files |-> <<>>]
             ELSE prepareFrom(names, i + 1, outDir, f, c,
                              Append(acc, pkgFile(name, Base(name), h.hash)))

prepareFileList(names, outDir, f, c) == prepareFrom(names, 1, outDir, f, c, <<>>)

BackupPrefix == "etc/"

\* mutant: the prefix without its slash
RECURSIVE createBackupListLoosePrefix(_)
createBackupListLoosePrefix(fl) ==
    IF fl = <<>> THEN <<>>
    ELSE (IF HasPrefix(fl[1].Path, "etc") THEN <<fl[1].Path>> ELSE <<>>)
         \o createBackupListLoosePrefix(Tail(fl))

RECURSIVE createBackupList(_)
createBackupList(fl) ==
    IF fl = <<>> THEN <<>>
    ELSE (IF HasPrefix(fl[1].Path, BackupPrefix) THEN <<fl[1].Path>> ELSE <<>>)
         \o createBackupList(Tail(fl))

-----------------------------------------------------------------------------
(* Output directory, staging, templates                                    *)

\* mutant: an existing path is refused
createOutputDirExclusive(f, name) ==
    LET st == Stat(f, name)
    IN  IF st.err = "nil" THEN [err |-> "EEXIST", fs |-> f]
        ELSE IF ~IsNotExist(st.err) THEN [err |-> st.err, fs |-> f]
        ELSE Mkdir(f, name)

createOutputDir(f, name) ==
    LET st == Stat(f, name)
    IN  IF ~IsNotExist(st.err) THEN [err |-> st.err, fs |-> f]
        ELSE Mkdir(f, name)

\* mutant: an existing destination is linked again
copyLocalFileRelink(f, file, outDir) ==
    LET targetName == Join(outDir, file.Name)
        st         == Stat(f, targetName)
    IN  IF st.err # "nil" /\ ~IsNotExist(st.err) THEN [err |-> st.err, fs |-> f]
        ELSE IF st.err = "nil"
        THEN [err |-> "nil",
              fs |-> [f EXCEPT ![targetName] = f[Clean(file.Path)]]]
        ELSE Link(f, file.Path, targetName)

\* copyLocalFiles: the body of the loop for one entry
copyLocalFile(f, file, outDir) ==
    LET targetName == Join(outDir, file.Name)
        st         == Stat(f, targetName)
    IN  IF st.err # "nil" /\ ~IsNotExist(st.err) THEN [err |-> st.err, fs |-> f]
        ELSE IF st.err = "nil" THEN [err |-> "nil", fs |-> f]
        ELSE Link(f, file.Path, targetName)

serviceTemplate(data) ==
    << "[Unit]",
       "Description=" \o data.Description,
       "",
       "[Service]",
       "ExecStart=/usr/bin/" \o data.ExecName,
       "Restart=always",
       "",
       "[Install]",
       "WantedBy=multi-user.target" >>

RECURSIVE sourceLines(_)
sourceLines(fl) ==
    IF fl = <<>> THEN <<>>
    ELSE <<"source=" \o fl[1].Name, "md5sum=" \o fl[1].Hash>> \o sourceLines(Tail(fl))

RECURSIVE backupLines(_)
backupLines(bl) ==
    IF bl = <<>> THEN <<>> ELSE <<"backup=" \o bl[1]>> \o backupLines(Tail(bl))

\* the build-script template: the header, the backup list, and a source and
\* a checksum line per file
pkgbuildTemplate(data) ==
    <<"pkgname=" \o data.PkgName, "url=" \o data.RepoURL>>
    \o backupLines(data.Backup) \o sourceLines(data.Files)

\* template.Execute and ioutil.WriteFile write to the open file as they go:
\* a failure leaves the lines written before it.  The outcomes taken are
\* nothing written, the first line written, and everything written.
WriteOutcomes(lines) == {0, 1, Len(lines)}
RenderError == "write error"

Written(c, ino, lines, n) == [c EXCEPT ![ino] = SubSeq(lines, 1, n)]

gitignoreLines(pkgName) == <<"/*.tar.xz", "/pkg", "/src", "/" \o pkgName>>

\* mutant: the clean flag is always passed
makepkgArgsAlwaysClean(cleanUp) == <<"-f", "-c">>

\* runBuild: the arguments of makepkg
makepkgArgs(cleanUp) == <<"-f">> \o (IF cleanUp THEN <<"-c">> ELSE <<>>)

\* makepkg leaves the checkout of the sources in <dir>/<pkgname>
makepkgEffect(f, dir, pkgName) ==
    LET q == Join(dir, pkgName)
    IN  IF q \in DOMAIN f \/ PathError(f, q) # "nil" THEN f ELSE (q :> DirNode) @@ f

description == "my cool package"
outputName == BuildScriptName

-----------------------------------------------------------------------------
(* main(), step by step                                                    *)

Fatal(e) == pc' = "fatal" /\ err' = e

\* line 130
TrimWildcardStep ==
    /\ pc = "start"
    /\ LET tw == trimWildcardFromRepoURL(rawRepoURL)
       IN  /\ safeRepoURL' = tw[1]
           /\ isWildcardBuild' = tw[2]
    /\ pc' = "parseURL"
    /\ UNCHANGED <<packageName, argVars, fsVars, runVars, err, rerun>>

\* lines 132-156
ParseRepoURLStep ==
    /\ pc = "parseURL"
    /\ LET parsed == urlParse(safeRepoURL, goStrict)
           safe   == rewriteHost(rewriteScheme(safeRepoURL, parsed.Scheme),
                                 parsed.Host)
       IN  IF ~parsed.ok
           THEN /\ Fatal("parse error")
                /\ UNCHANGED <<safeRepoURL, packageName>>
           ELSE /\ safeRepoURL' = safe
                /\ packageName' = IF pkgNameOpt # NoName THEN pkgNameOpt
                                  ELSE getPackageNameFromRepoURL(safe)
                /\ pc' = "createOutputDir"
                /\ err' = err
    /\ UNCHANGED <<isWildcardBuild, argVars, fsVars, runVars, rerun>>

\* lines 158-161
CreateOutputDirStep ==
    /\ pc = "createOutputDir"
    /\ LET r == createOutputDir(fs, dirName)
       IN  IF r.err # "nil"
           THEN Fatal(r.err) /\ fs' = fs
           ELSE fs' = r.fs /\ pc' = "prepareFileList" /\ err' = err
    /\ UNCHANGED <<urlVars, argVars, content, runVars, rerun>>

\* lines 163-166
PrepareFileListStep ==
    /\ pc = "prepareFileList"
    /\ LET r == prepareFileList(fileList, dirName, fs, content)
       IN  IF r.err # "nil"
           THEN Fatal(r.err) /\ UNCHANGED <<files, idx>>
           ELSE /\ files' = r.files
                /\ idx' = 1
                /\ pc' = IF r.files = <<>> THEN "createBackupList"
                         ELSE "copyLocalFiles"
                /\ err' = err
    /\ UNCHANGED <<urlVars, argVars, fsVars, backup, buildArgs, built, cleaned, rerun>>

\* lines 168-171: one turn of the loop of copyLocalFiles
CopyLocalFileStep ==
    /\ pc = "copyLocalFiles"
    /\ LET r == copyLocalFile(fs, files[idx], dirName)
       IN  IF r.err # "nil"
           THEN Fatal(r.err) /\ UNCHANGED <<fs, idx>>
           ELSE /\ fs' = r.fs
                /\ idx' = idx + 1
                /\ pc' = IF idx = Len(files) THEN "createBackupList"
                         ELSE "copyLocalFiles"
                /\ err' = err
    /\ UNCHANGED <<urlVars, argVars, content, files, backup, buildArgs, built,
                   cleaned, rerun>>

\* line 173
CreateBackupListStep ==
    /\ pc = "createBackupList"
    /\ backup' = createBackupList(files)
    /\ pc' = "service"
    /\ UNCHANGED <<urlVars, argVars, fsVars, files, idx, err, buildArgs, built,
                   cleaned, rerun>>

\* lines 175-208
ServiceStep ==
    /\ pc = "service"
    /\ IF ~opt.s
       THEN pc' = "pkgbuild" /\ UNCHANGED <<fsVars, files, err>>
       ELSE LET serviceName == packageName \o ".service"
                target      == Join(dirName, serviceName)
                cr          == Create(fs, content, target)
                lines       == serviceTemplate([Description |-> description,
                                                ExecName |-> packageName])
            IN  IF cr.err # "nil"
                THEN Fatal(cr.err) /\ UNCHANGED <<fsVars, files>>
                ELSE \E n \in WriteOutcomes(lines) :
                       LET c2 == Written(cr.content, cr.fs[target], lines, n)
                           h  == getFileHash(cr.fs, c2, target)
                       IN  /\ fs' = cr.fs
                           /\ content' = c2
                           /\ IF n < Len(lines)
                              THEN Fatal(RenderError) /\ files' = files
                              ELSE IF h.err # "nil"
                              THEN Fatal(h.err) /\ files' = files
                              ELSE /\ files' = Append(files,
                                          pkgFile(Join("usr/lib/systemd/system/",
                                                       serviceName),
                                                  serviceName, h.hash))
                                   /\ pc' = "pkgbuild"
                                   /\ err' = err
    /\ UNCHANGED <<urlVars, argVars, backup, idx, buildArgs, built, cleaned, rerun>>

\* lines 210-231
PkgbuildStep ==
    /\ pc = "pkgbuild"
    /\ LET target == Join(dirName, outputName)
           cr     == Create(fs, content, target)
           lines  == pkgbuildTemplate([PkgName |-> packageName,
                                       RepoURL |-> safeRepoURL,
                                       Files |-> files,
                                       Backup |-> backup])
       IN  IF cr.err # "nil"
           THEN Fatal(cr.err) /\ UNCHANGED fsVars
           ELSE \E n \in WriteOutcomes(lines) :
                  /\ fs' = cr.fs
                  /\ content' = Written(cr.content, cr.fs[target], lines, n)
                  /\ IF n < Len(lines)
                     THEN Fatal(RenderError)
                     ELSE pc' = "gitignore" /\ err' = err
    /\ UNCHANGED <<urlVars, argVars, runVars, rerun>>

\* lines 233-238 and createGitignore
GitignoreStep ==
    /\ pc = "gitignore"
    /\ IF ~opt.g
       THEN pc' = "runBuild" /\ UNCHANGED <<fsVars, err>>
       ELSE LET target == Join(dirName, ".gitignore")
                cr     == Create(fs, content, target)
                lines  == gitignoreLines(packageName)
            IN  IF cr.err # "nil"
                THEN Fatal(cr.err) /\ UNCHANGED fsVars
                ELSE \E n \in WriteOutcomes(lines) :
                       /\ fs' = cr.fs
                       /\ content' = Written(cr.content, cr.fs[target], lines, n)
                       /\ IF n < Len(lines)
                          THEN Fatal(RenderError)
                          ELSE pc' = "runBuild" /\ err' = err
    /\ UNCHANGED <<urlVars, argVars, runVars, rerun>>

BuildFailed == "exit status 1"

\* lines 240-245 and runBuild
RunBuildStep ==
    /\ pc = "runBuild"
    /\ IF ~opt.B
       THEN pc' = "cleanUp" /\ UNCHANGED <<fs, err, buildArgs, built>>
       ELSE /\ buildArgs' = makepkgArgs(opt.c)
            /\ built' = TRUE
            /\ \E e \in {"nil", BuildFailed} :
                 IF e # "nil"
                 THEN Fatal(e) /\ fs' = fs
                 ELSE /\ fs' = makepkgEffect(fs, dirName, packageName)
                      /\ pc' = "cleanUp"
                      /\ err' = err
    /\ UNCHANGED <<urlVars, argVars, content, files, backup, idx, cleaned, rerun>>

\* lines 247-252 and cleanUp; os.RemoveAll of a path the run may write to is
\* taken not to fail
CleanUpStep ==
    /\ pc = "cleanUp"
    /\ IF ~opt.c
       THEN UNCHANGED <<fs, cleaned>>
       ELSE /\ fs' = RemoveAll(fs, Join(dirName, packageName))
            /\ cleaned' = TRUE
    /\ pc' = "done"
    /\ UNCHANGED <<urlVars, argVars, content, files, backup, idx, err, buildArgs,
                   built, rerun>>

\* the tool is run once more with the same arguments after a completed run
Rerun ==
    /\ pc = "done"
    /\ ~rerun
    /\ rerun' = TRUE
    /\ pc' = "start"
    /\ safeRepoURL' = ""
    /\ isWildcardBuild' = FALSE
    /\ packageName' = ""
    /\ files' = <<>>
    /\ backup' = <<>>
    /\ idx' = 1
    /\ buildArgs' = <<>>
    /\ built' = FALSE
    /\ cleaned' = FALSE
    /\ UNCHANGED <<argVars, fsVars, err>>

-----------------------------------------------------------------------------
(* The world the tool is run in, and its arguments                         *)

MaxFiles == 2

SeqsUpTo(S, n) == UNION {[1..k -> S] : k \in 0..n}

WorldDirs == {".", "etc", "etc/app", "sub", "mnt", "build"}
WorldFiles == {"README", "etc/app/config.conf", "builder.go", "sub/PKGBUILD",
               "sub/README", "foo.service", ".gitignore", "PKGBUILD",
               "mnt/data", "locked", "build/old", "build/PKGBUILD"}

InitFs == [p \in WorldDirs \cup WorldFiles |-> IF p \in WorldDirs THEN DirNode ELSE p]
InitContent == [p \in WorldFiles |-> <<"data of " \o p>>]

\* -d: an existing directory, a new one, a regular file
DirNames == {"build", "out", "README"}

RunNames == {"README", "etc/app/config.conf", "sub/README", "sub/PKGBUILD",
             "foo.service", "mnt/data"}

RunRepoURL == "ssh://example.com/team/foo.git/..."

Flags == [B : BOOLEAN, c : BOOLEAN, s : BOOLEAN, g : BOOLEAN]

InitLocals ==
    /\ safeRepoURL = ""
    /\ isWildcardBuild = FALSE
    /\ packageName = ""
    /\ files = <<>>
    /\ backup = <<>>
    /\ idx = 1
    /\ err = "nil"
    /\ buildArgs = <<>>
    /\ built = FALSE
    /\ cleaned = FALSE
    /\ rerun = FALSE

Init ==
    /\ pc = "start"
    /\ goStrict = TRUE
    /\ rawRepoURL = RunRepoURL
    /\ origRepoURL = RunRepoURL
    /\ pkgNameOpt = NoName
    /\ fileList \in SeqsUpTo(RunNames, MaxFiles)
    /\ dirName \in DirNames
    /\ opt \in Flags
    /\ fs = InitFs
    /\ content = InitContent
    /\ InitLocals

Next ==
    \/ TrimWildcardStep
    \/ ParseRepoURLStep
    \/ CreateOutputDirStep
    \/ PrepareFileListStep
    \/ CopyLocalFileStep
    \/ CreateBackupListStep
    \/ ServiceStep
    \/ PkgbuildStep
    \/ GitignoreStep
    \/ RunBuildStep
    \/ CleanUpStep
    \/ Rerun

Spec == Init /\ [][Next]_vars

-----------------------------------------------------------------------------
(* Repository URLs: normalisation of many URLs, and of its own result      *)

URLSchemes == {"git://", "ssh://", "SSH://", "ssh+git://", "https://", ""}
URLHosts == {"example.com", "git@github.com:user", "ssh.host", "a:", "host:22",
             "github.com"}
URLPaths == {"/foo/bar.git", "/repo", "/a:...", ""}
URLSuffixes == {"", "/...", "/.../..."}

RawRepoURLs ==
    {sc \o h \o p \o x : sc \in URLSchemes, h \in URLHosts, p \in URLPaths,
                         x \in URLSuffixes}

NoFlags == [B |-> FALSE, c |-> FALSE, s |-> FALSE, g |-> FALSE]

InitURL ==
    /\ pc = "start"
    /\ goStrict \in BOOLEAN
    /\ rawRepoURL \in RawRepoURLs
    /\ origRepoURL = rawRepoURL
    /\ pkgNameOpt \in {NoName, "custom"}
    /\ fileList = <<>>
    /\ dirName = "out"
    /\ opt = NoFlags
    /\ fs = InitFs
    /\ content = InitContent
    /\ InitLocals

\* the normalised URL is given as <repo> to the normalisation once more
Resubmit ==
    /\ pc = "createOutputDir"
    /\ ~rerun
    /\ rerun' = TRUE
    /\ rawRepoURL' = safeRepoURL
    /\ pc' = "start"
    /\ safeRepoURL' = ""
    /\ isWildcardBuild' = FALSE
    /\ packageName' = ""
    /\ UNCHANGED <<goStrict, origRepoURL, pkgNameOpt, fileList, dirName, opt,
                   fsVars, runVars, err>>

NextURL ==
    \/ TrimWildcardStep
    \/ ParseRepoURLStep
    \/ Resubmit

SpecURL == InitURL /\ [][NextURL]_vars

-----------------------------------------------------------------------------
(* File collection and the backup list on their own                        *)

MaxNames == 2
MaxEntries == 2

ListNames == {"README", "etc", "etc/app/config.conf", "builder.go", "build",
              "build/old", "./build/old", "missing", "README/x", "PKGBUILD",
              "sub/PKGBUILD", "locked"}

ListDirs == {"build", "out"}

InitFileList ==
    /\ pc = "prepareFileList"
    /\ goStrict = TRUE
    /\ rawRepoURL = RunRepoURL
    /\ origRepoURL = RunRepoURL
    /\ pkgNameOpt = NoName
    /\ fileList \in SeqsUpTo(ListNames, MaxNames)
    /\ dirName \in ListDirs
    /\ opt = NoFlags
    /\ fs = InitFs
    /\ content = InitContent
    /\ InitLocals

NextFileList == PrepareFileListStep

SpecFileList == InitFileList /\ [][NextFileList]_vars

BackupPaths == {"etc/app/config.conf", "README", "etc", "etc/", "etcetera/x",
                "usr/etc/x", "/etc/x", "ETC/x"}

EntriesOf(paths) ==
    [i \in 1..Len(paths) |-> pkgFile(paths[i], Base(paths[i]), MD5(<<paths[i]>>))]

InitBackup ==
    /\ pc = "createBackupList"
    /\ goStrict = TRUE
    /\ rawRepoURL = RunRepoURL
    /\ origRepoURL = RunRepoURL
    /\ pkgNameOpt = NoName
    /\ fileList = <<>>
    /\ dirName = "out"
    /\ opt = NoFlags
    /\ fs = InitFs
    /\ content = InitContent
    /\ safeRepoURL = ""
    /\ isWildcardBuild = FALSE
    /\ packageName = ""
    /\ files \in {EntriesOf(ps) : ps \in SeqsUpTo(BackupPaths, MaxEntries)}
    /\ backup = <<>>
    /\ idx = 1
    /\ err = "nil"
    /\ buildArgs = <<>>
    /\ built = FALSE
    /\ cleaned = FALSE
    /\ rerun = FALSE

NextBackup == CreateBackupListStep

SpecBackup == InitBackup /\ [][NextBackup]_vars

-----------------------------------------------------------------------------
(* Properties                                                              *)

BeforeStaging == {"start", "parseURL", "createOutputDir"}

\* C1 (as amended): createOutputDir creates the output directory when it is
\* absent (or reports the error of Mkdir); when the path already exists, as
\* a directory or as a regular file, it returns no error and changes
\* nothing, and the run goes on to the file collection; a second run against
\* the same output directory passes this step.
C1_ExistingDirAccepted ==
    [][pc = "createOutputDir" =>
         LET st == Stat(fs, dirName)
             d  == Clean(dirName)
         IN  /\ st.err = "nil" =>
                  /\ pc' = "prepareFileList"
                  /\ err' = "nil"
                  /\ UNCHANGED fsVars
             /\ IsNotExist(st.err) =>
                  \/ /\ pc' = "prepareFileList"
                     /\ DOMAIN fs' = DOMAIN fs \cup {d}
                     /\ fs'[d] = DirNode
                     /\ \A q \in DOMAIN fs : fs'[q] = fs[q]
                     /\ content' = content
                  \/ pc' = "fatal" /\ err' # "nil" /\ UNCHANGED fsVars
             /\ rerun => pc' = "prepareFileList"
    ]_vars

\* C1 witness: a second run has passed createOutputDir and has written the
\* build script again into the directory of the first run.
C1_Witness ==
    /\ rerun
    /\ pc = "gitignore"
    /\ Join(dirName, outputName) \in DOMAIN fs

\* C1 as stated: a run against an output directory path that already exists
\* (present at the start, or left by a first run) ends fatally at
\* createOutputDir, before anything in the directory is touched.
C1_Original ==
    (rerun \/ Clean(dirName) \in DOMAIN InitFs) => pc \in BeforeStaging \cup {"fatal"}

Collected == pc \in {"copyLocalFiles", "createBackupList", "fatal"}

Readable(f, name) ==
    Stat(f, name).err = "nil" /\ f[Clean(name)] \notin Unreadable

\* C2: prepareFileList omits every directory without an error and without an
\* entry, and a path that does not exist, at any position of the list, makes
\* it return an error and no file list.
C2_MissingIsFatal ==
    Collected =>
      /\ (\E i \in 1..Len(fileList) : Stat(fs, fileList[i]).err # "nil")
            => (pc = "fatal" /\ err # "nil" /\ files = <<>>)
      /\ pc # "fatal" => \A k \in 1..Len(files) : ~Stat(fs, files[k].Path).isDir
      /\ (\A i \in 1..Len(fileList) : Readable(fs, fileList[i])) => pc # "fatal"

\* C2 witness: a directory first and a missing path second: the run is fatal.
C2_Witness ==
    /\ pc = "fatal"
    /\ Len(fileList) = 2
    /\ Stat(fs, fileList[1]).isDir
    /\ IsNotExist(Stat(fs, fileList[2]).err)

IsBackupPath(p) == Len(p) >= 4 /\ SubSeq(p, 1, 4) = "etc/"

BackupIndexes(fl) == {i \in 1..Len(fl) : IsBackupPath(fl[i].Path)}

\* C3: createBackupList returns the Path of each entry whose Path begins
\* with etc/, in the order of the entries, and nothing else; for
\* etc/app/config.conf and README that is <<etc/app/config.conf>>; the list
\* of entries is left as it was.
C3_BackupList ==
    [][pc = "createBackupList" =>
         LET ix == BackupIndexes(files)
         IN  /\ Len(backup') = Cardinality(ix)
             /\ \A i \in ix :
                  backup'[Cardinality({j \in ix : j < i}) + 1] = files[i].Path
             /\ (Len(files) = 2 /\ files[1].Path = "etc/app/config.conf"
                   /\ files[2].Path = "README")
                  => backup' = <<"etc/app/config.conf">>
             /\ files' = files
    ]_vars

\* C3 witness: the backup list of etc/app/config.conf and README.
C3_Witness ==
    /\ pc = "service"
    /\ Len(files) = 2
    /\ files[1].Path = "etc/app/config.conf"
    /\ files[2].Path = "README"
    /\ backup = <<"etc/app/config.conf">>

\* C4 (as amended): for a URL that ends in /... the flag is true and the
\* returned URL is the URL without its last /... (appending the marker gives
\* the URL back); it still ends in /... when the URL ended in /.../...; for a
\* URL that does not end in /... the flag is false and the URL is unchanged.
C4_OneMarkerStripped ==
    pc = "parseURL" =>
      IF HasSuffix(rawRepoURL, "/...")
      THEN /\ isWildcardBuild
           /\ safeRepoURL \o "/..." = rawRepoURL
           /\ HasSuffix(safeRepoURL, "/...") <=> HasSuffix(rawRepoURL, "/.../...")
      ELSE ~isWildcardBuild /\ safeRepoURL = rawRepoURL

\* C4 witness: a URL that ends in /.../... has been trimmed.
C4_Witness ==
    /\ pc = "parseURL"
    /\ HasSuffix(rawRepoURL, "/.../...")
    /\ isWildcardBuild

\* C4 as stated: for a URL that ends in /... the flag is true and the
\* returned URL does not end in /...
C4_Original ==
    (pc = "parseURL" /\ HasSuffix(rawRepoURL, "/..."))
        => (isWildcardBuild /\ ~HasSuffix(safeRepoURL, "/..."))

\* C5: for a non-wildcard URL that the normalisation accepts, normalising
\* the result again succeeds and returns it unchanged.
C5_Idempotent ==
    (rerun /\ pc \in {"createOutputDir", "fatal"} /\ ~HasSuffix(origRepoURL, "/..."))
        => (pc = "createOutputDir" /\ safeRepoURL = rawRepoURL)

\* C6: one turn of copyLocalFiles: when <outDir>/<entry.Name> does not
\* exist, a hard link from entry.Path to it is made, or the step ends with
\* the error; when it exists, it is left as it is and the loop goes on
\* without an error.
C6_LinkOrLeave ==
    [][pc = "copyLocalFiles" =>
         LET e  == files[idx]
             t  == Join(dirName, e.Name)
             st == Stat(fs, t)
         IN  /\ st.err = "nil" =>
                  /\ UNCHANGED fsVars
                  /\ pc' # "fatal"
                  /\ err' = "nil"
                  /\ idx' = idx + 1
             /\ st.err # "nil" =>
                  \/ pc' = "fatal" /\ err' # "nil" /\ UNCHANGED fsVars
                  \/ /\ pc' # "fatal"
                     /\ DOMAIN fs' = DOMAIN fs \cup {t}
                     /\ fs'[t] = fs[Clean(e.Path)]
                     /\ \A q \in DOMAIN fs : fs'[q] = fs[q]
                     /\ content' = content
                     /\ idx' = idx + 1
             /\ (IsNotExist(st.err) /\ PathError(fs, t) = "nil"
                   /\ fs[Clean(e.Path)] \notin OtherDevice) => pc' # "fatal"
    ]_vars

\* C6 witness: in a second run the loop has passed over a destination that
\* the first run had linked.
C6_Witness ==
    /\ rerun
    /\ pc = "createBackupList"
    /\ Len(files) >= 1
    /\ Join(dirName, files[1].Name) \in DOMAIN fs
    /\ fs[Join(dirName, files[1].Name)] = fs[Clean(files[1].Path)]

\* C7: the clean-up is performed exactly when -c was given and no earlier
\* step failed, with or without -B; with -B it follows makepkg, which is
\* given -f always and -c only with the clean-up; a failed makepkg ends the
\* run fatally.
C7_CleanUp ==
    /\ cleaned => /\ opt.c
                  /\ pc = "done"
                  /\ err = "nil"
                  /\ Join(dirName, packageName) \notin DOMAIN fs
    /\ (pc = "done" /\ opt.c) => cleaned
    /\ pc = "fatal" => (~cleaned /\ err # "nil")
    /\ built => /\ opt.B
                /\ buildArgs = IF opt.c THEN <<"-f", "-c">> ELSE <<"-f">>
    /\ (pc \in {"cleanUp", "done"} /\ opt.B) => built
    /\ err = BuildFailed => (pc = "fatal" /\ built)

\* C7 witness: the clean-up has run in a run without -B.
C7_Witness ==
    /\ cleaned
    /\ ~opt.B
    /\ ~built

\* C8: when the rendering of the service unit or of the build script fails,
\* nothing of that artifact's file has been written: the file system is as
\* it was before the step.
C8_NothingPersisted ==
    [][(pc \in {"service", "pkgbuild"} /\ err' = RenderError) => UNCHANGED fsVars]_vars

UnderDir(name, dir) == HasPrefix(Clean(name), Clean(dir) \o "/")

C9Keep(name) ==
    /\ ~Stat(fs, name).isDir
    /\ name # BuildScriptName
    /\ ~UnderDir(name, dirName)

C9Entry(name) == pkgFile(name, Base(name), MD5(content[fs[Clean(name)]]))

\* C9: for a list of existing paths, prepareFileList returns, in the order
\* of the list, one entry for exactly the regular files that are not named
\* PKGBUILD and do not lie under the output directory.
C9_ExactlyTheFilesOutside ==
    (Collected /\ \A i \in 1..Len(fileList) : Readable(fs, fileList[i]))
      => /\ pc # "fatal"
         /\ LET kept == SelectSeq(fileList, C9Keep)
            IN  files = [i \in 1..Len(kept) |-> C9Entry(kept[i])]

\* C10: over a run, the content of every input file of the file list is
\* what it was before the run.
C10_InputsUnchanged ==
    \A i \in 1..Len(fileList) :
       LET q == Clean(fileList[i])
       IN  (q \in WorldFiles /\ q \in DOMAIN fs) => content[fs[q]] = InitContent[q]

StagedName(e) == Join(dirName, e.Name)

\* C11: when the run reaches the rendering of the build script, every entry
\* passed to the template has a staged regular file <outDir>/<entry.Name>
\* whose content hashes to entry.Hash.
C11_ChecksumsMatchStaged ==
    pc = "pkgbuild" =>
      \A k \in 1..Len(files) :
         /\ StagedName(files[k]) \in DOMAIN fs
         /\ fs[StagedName(files[k])] # DirNode
         /\ MD5(content[fs[StagedName(files[k])]]) = files[k].Hash

=============================================================================
